---- MODULE Spec2Model ----
(***************************************************************************)
(* Line consolidation of docvision: analyseLines, consolidateLinesSchemed, *)
(* consolidateLines, consolidateLinesSchemedBySlope and                    *)
(* consolidateLinesBySlope, with the geometer.js and logician.js helpers   *)
(* they call.                                                              *)
(*                                                                         *)
(* Number representation.  Coordinates and distance tolerances are         *)
(* integers.  Angles are integers in tenths of a degree (mathPi = 1800),   *)
(* so that every anchor of the code (pi/8, 3pi/8, pi/2, ...) is an exact   *)
(* integer; Math.asin / Math.acos are the table ArcTan below.  Intercepts  *)
(* are exact rationals <<num, den>> with den > 0; an absent intercept      *)
(* (the property is not set on the object) is NoNumber.  A length is kept  *)
(* as its radicand (the number under Math.sqrt), and comparisons of        *)
(* lengths are done on the radicands.  NaN is a value of its own and every *)
(* comparison with it is false, as in JavaScript.                          *)
(***************************************************************************)
EXTENDS Integers, Sequences, FiniteSets, TLC

\* ------------------------------------------------------------------ bounds

\* Longest input sequence of flat lines.
MaxLines == 4

\* Longest array handed to binRuns.
MaxSeq == 6

\* Greatest x of a rectangle handed to rectangleConstrainInRectangle.
MaxCoordinate == 5

\* ----------------------------------------------------------------- numbers

\* Math.acos(-1), in tenths of a degree.
mathPi == 1800

\* The IEEE NaN that Math.acos(0/0) returns for a zero-length line.
NaN == 999999

\* A property that was never set on a schemed line (typeof != "number").
NoNumber == <<0, 0>>

Abs(x) == IF x < 0 THEN -x ELSE x

Sign(x) == IF x < 0 THEN -1 ELSE IF x > 0 THEN 1 ELSE 0

MinOf(a, b) == IF a < b THEN a ELSE b

MaxOf(a, b) == IF a > b THEN a ELSE b

\* a < b on JavaScript numbers: false when either is NaN.
NumLt(a, b) == a # NaN /\ b # NaN /\ a < b

\* Math.abs(a - b), NaN when either is NaN.
NumAbsDiff(a, b) == IF a = NaN \/ b = NaN THEN NaN ELSE Abs(a - b)

\* typeof(v) == "number" for an intercept property.
IsNumber(r) == r[2] # 0

\* The rational n/d (d # 0) with a positive denominator.
Rat(n, d) == IF d < 0 THEN <<-n, -d>> ELSE <<n, d>>

\* Math.abs(a - b) <= tol for two rationals.
RatAbsDiffLeq(a, b, tol) == Abs(a[1] * b[2] - b[1] * a[2]) <= tol * a[2] * b[2]

\* atan(n/d) for 0 <= n <= d, d > 0, in tenths of a degree (rounded).
ArcTan(n, d) ==
  CASE n = 0 -> 0
    [] n = d -> 450
    [] 20 * n = d -> 29
    [] 15 * n = d -> 38
    [] 10 * n = d -> 57
    [] 5 * n = d -> 113
    [] 2 * n = d -> 266

\* Math.asin(dy / dist) where |dx| > |dy|: the sign follows dy alone.
ArcSinOf(dx, dy) == Sign(dy) * ArcTan(Abs(dy), Abs(dx))

\* Math.acos(dx / dist) where |dx| <= |dy|: 0/0 gives NaN, dy's sign is lost.
ArcCosOf(dx, dy) ==
  IF dx = 0 /\ dy = 0 THEN NaN
  ELSE (mathPi \div 2) - Sign(dx) * ArcTan(Abs(dx), Abs(dy))

\* ------------------------------------------------------------ analyseLines

\* schemedLineOf with x0 and y0 exchanged in the intercepts of lines 32 and 36.
schemedLineOfSwappedCoordinates(lineTemp, lineIndex) ==
  LET dx == lineTemp[3] - lineTemp[1]
      dy == lineTemp[4] - lineTemp[2]
      dist0 == dx * dx + dy * dy
      angle0 == IF Abs(dx) > Abs(dy) THEN ArcSinOf(dx, dy) ELSE ArcCosOf(dx, dy)
      hasX == NumLt(mathPi \div 8, angle0) /\ NumLt(angle0, (mathPi * 7) \div 8)
      hasY == \/ NumLt(angle0, (mathPi * 3) \div 8) /\ NumLt((mathPi * (-3)) \div 8, angle0)
              \/ NumLt((mathPi * 5) \div 8, angle0) /\ NumLt(angle0, (mathPi * 11) \div 8)
  IN [angle |-> angle0,
      length |-> dist0,
      coordinates |-> lineTemp,
      xint |-> IF hasX THEN Rat(lineTemp[2] * dy - lineTemp[1] * dx, dy) ELSE NoNumber,
      yint |-> IF hasY THEN Rat(lineTemp[1] * dx - lineTemp[2] * dy, dx) ELSE NoNumber,
      rank |-> lineIndex]

\* schemedLineOf without the second window of line 34.
schemedLineOfOneYWindow(lineTemp, lineIndex) ==
  LET dx == lineTemp[3] - lineTemp[1]
      dy == lineTemp[4] - lineTemp[2]
      dist0 == dx * dx + dy * dy
      angle0 == IF Abs(dx) > Abs(dy) THEN ArcSinOf(dx, dy) ELSE ArcCosOf(dx, dy)
      hasX == NumLt(mathPi \div 8, angle0) /\ NumLt(angle0, (mathPi * 7) \div 8)
      hasY == NumLt(angle0, (mathPi * 3) \div 8) /\ NumLt((mathPi * (-3)) \div 8, angle0)
  IN [angle |-> angle0,
      length |-> dist0,
      coordinates |-> lineTemp,
      xint |-> IF hasX THEN Rat(lineTemp[1] * dy - lineTemp[2] * dx, dy) ELSE NoNumber,
      yint |-> IF hasY THEN Rat(lineTemp[2] * dx - lineTemp[1] * dy, dx) ELSE NoNumber,
      rank |-> lineIndex]

\* One iteration of the forEach of analyseLines: the schemed line of lineTemp.
schemedLineOf(lineTemp, lineIndex) ==
  LET dx == lineTemp[3] - lineTemp[1]
      dy == lineTemp[4] - lineTemp[2]
      dist0 == dx * dx + dy * dy
      angle0 == IF Abs(dx) > Abs(dy) THEN ArcSinOf(dx, dy) ELSE ArcCosOf(dx, dy)
      hasX == NumLt(mathPi \div 8, angle0) /\ NumLt(angle0, (mathPi * 7) \div 8)
      hasY == \/ NumLt(angle0, (mathPi * 3) \div 8) /\ NumLt((mathPi * (-3)) \div 8, angle0)
              \/ NumLt((mathPi * 5) \div 8, angle0) /\ NumLt(angle0, (mathPi * 11) \div 8)
  IN [angle |-> angle0,
      length |-> dist0,
      coordinates |-> lineTemp,
      xint |-> IF hasX THEN Rat(lineTemp[1] * dy - lineTemp[2] * dx, dy) ELSE NoNumber,
      yint |-> IF hasY THEN Rat(lineTemp[2] * dx - lineTemp[1] * dy, dx) ELSE NoNumber,
      rank |-> lineIndex]

\* analyseLines with the forEach of line 20 skipping a line equal to the one
\* before it.
analyseLinesSkippingRepeats(ls) ==
  LET kept == { i \in 1..Len(ls) : i = 1 \/ ls[i] # ls[i - 1] }
      nth(k) == CHOOSE i \in kept : Cardinality({ j \in kept : j <= i }) = k
  IN [k \in 1..Cardinality(kept) |-> schemedLineOf(ls[nth(k)], nth(k) - 1)]

\* Lines 18-41: the forEach pushes one schemed line per line, in order.
analyseLines(ls) == [i \in 1..Len(ls) |-> schemedLineOf(ls[i], i - 1)]

\* -------------------------------------------------------------- geometer.js

\* JavaScript null (vectorBinaryOp on vectors of different length,
\* vectorMagnitude of null).
null == [null |-> TRUE]

\* Array.prototype.slice(from, to) on a zero-based array.
Slice(s, from, to) == SubSeq(s, from + 1, to)

\* vectorBinaryOp("-", v0, v1): v1 - v0 componentwise, null when the lengths differ.
vectorDifference(v0, v1) ==
  IF Len(v0) # Len(v1) THEN null
  ELSE [null |-> FALSE, v |-> [i \in 1..Len(v0) |-> v1[i] - v0[i]]]

RECURSIVE SumSquares(_)
SumSquares(v) == IF v = <<>> THEN 0 ELSE v[1] * v[1] + SumSquares(Tail(v))

\* vectorMagnitude: null for null, else the magnitude (kept as its radicand).
vectorMagnitude(d) == IF d.null THEN null ELSE [null |-> FALSE, sq |-> SumSquares(d.v)]

vectorDistance(v0, v1) == vectorMagnitude(vectorDifference(v0, v1))

\* m <= tol where m is a vectorMagnitude result: JavaScript converts null to 0.
MagnitudeLeq(m, tol) ==
  IF m.null THEN 0 <= tol ELSE tol >= 0 /\ m.sq <= tol * tol

\* A number held in a variable that starts as null.
Num(n) == [null |-> FALSE, n |-> n]

\* One pass of the forEach of linesSchemedToFlatlineByBounds over the four
\* bounds: each guard compares a bound with itself (minX < minX), so a bound is
\* assigned only while it is still null.
BoundsStep(b, line) ==
  LET c == line.coordinates
  IN [minX |-> IF b.minX.null THEN Num(MinOf(c[1], c[3])) ELSE b.minX,
      minY |-> IF b.minY.null THEN Num(MinOf(c[2], c[4])) ELSE b.minY,
      maxX |-> IF b.maxX.null THEN Num(MaxOf(c[1], c[3])) ELSE b.maxX,
      maxY |-> IF b.maxY.null THEN Num(MaxOf(c[2], c[4])) ELSE b.maxY]

RECURSIVE BoundsFold(_, _)
BoundsFold(b, ls) == IF ls = <<>> THEN b ELSE BoundsFold(BoundsStep(b, Head(ls)), Tail(ls))

\* +1 or -1: what one line adds to signednessNet.
Signedness(line) ==
  LET c == line.coordinates
      dx == c[3] - c[1]
      dy == c[4] - c[2]
  IN IF (dx < 0 /\ dy > 0) \/ (dx > 0 /\ dy < 0) THEN -1 ELSE 1

RECURSIVE signednessNet(_)
signednessNet(ls) == IF ls = <<>> THEN 0 ELSE Signedness(Head(ls)) + signednessNet(Tail(ls))

linesSchemedToFlatlineByBounds(ls, signed) ==
  LET b == BoundsFold([minX |-> null, minY |-> null, maxX |-> null, maxY |-> null], ls)
  IN IF signed /\ signednessNet(ls) < 0
     THEN <<b.minX.n, b.maxY.n, b.maxX.n, b.minY.n>>
     ELSE <<b.minX.n, b.minY.n, b.maxX.n, b.maxY.n>>

\* space1dHasPoint on numbers scaled by a common positive factor.
space1dHasPoint(lo, hi, p) == (p >= lo /\ p <= hi) \/ (p <= lo /\ p >= hi)

\* line2dProjectedPointWithinTolerance.  With v0 the direction of the line and
\* v1 the point relative to its base, the projection is base + v0 * (v0.v1) / (v0.v0);
\* all comparisons are done after scaling by den = v0.v0.  A line of zero
\* length gives 0/0 = NaN coordinates, which lie in no space.
line2dProjectedPointWithinTolerance(line, point, tol) ==
  LET v0x == line[3] - line[1]
      v0y == line[4] - line[2]
      v1x == point[1] - line[1]
      v1y == point[2] - line[2]
      den == v0x * v0x + v0y * v0y
      dot == v0x * v1x + v0y * v1y
      px == v0x * dot + line[1] * den
      py == v0y * dot + line[2] * den
      ex == point[1] * den - px
      ey == point[2] * den - py
  IN /\ den # 0
     /\ space1dHasPoint(line[1] * den, line[3] * den, px)
     /\ space1dHasPoint(line[2] * den, line[4] * den, py)
     /\ tol >= 0
     /\ ex * ex + ey * ey <= tol * tol * den * den

lineGroupAndSegmentAdjacent(baseGroup, testLineFull, gap) ==
  LET baseGroupBounds == linesSchemedToFlatlineByBounds(baseGroup, TRUE)
      testLine == testLineFull.coordinates
  IN \/ line2dProjectedPointWithinTolerance(baseGroupBounds, <<testLine[1], testLine[2]>>, gap)
     \/ line2dProjectedPointWithinTolerance(baseGroupBounds, <<testLine[3], testLine[4]>>, gap)
     \/ MagnitudeLeq(vectorDistance(Slice(baseGroupBounds, 0, 2), Slice(testLine, 0, 2)), gap)
     \/ MagnitudeLeq(vectorDistance(Slice(baseGroupBounds, 2, 2), Slice(testLine, 0, 2)), gap)
     \/ MagnitudeLeq(vectorDistance(Slice(baseGroupBounds, 0, 2), Slice(testLine, 2, 4)), gap)
     \/ MagnitudeLeq(vectorDistance(Slice(baseGroupBounds, 2, 2), Slice(testLine, 2, 4)), gap)

\* ------------------------------------------- consolidateLinesSchemed, stage 1

\* Lines 80-82: angle within rtol and a shared intercept within dtol.
CollinearMatch(schemedLine, prospectiveLineMatch, rt, dt) ==
  /\ NumLt(NumAbsDiff(schemedLine.angle, prospectiveLineMatch.angle), rt)
  /\ \/ /\ IsNumber(schemedLine.yint) /\ IsNumber(prospectiveLineMatch.yint)
        /\ RatAbsDiffLeq(schemedLine.yint, prospectiveLineMatch.yint, dt)
     \/ /\ IsNumber(schemedLine.xint) /\ IsNumber(prospectiveLineMatch.xint)
        /\ RatAbsDiffLeq(schemedLine.xint, prospectiveLineMatch.xint, dt)

SetMin(S) == CHOOSE x \in S : \A y \in S : x <= y

\* CollinearBin without the else of line 93: a matched line also starts a group.
CollinearBinNoElse(groups, schemedLine, rt, dt) ==
  LET hits == { g \in 1..Len(groups) : \E m \in 1..Len(groups[g]) :
                  CollinearMatch(schemedLine, groups[g][m], rt, dt) }
  IN IF hits # {}
     THEN Append([groups EXCEPT ![SetMin(hits)] = Append(@, schemedLine)], <<schemedLine>>)
     ELSE Append(groups, <<schemedLine>>)

\* CollinearBin writing into the pushed line, as rank, its place in the group.
CollinearBinRestamped(groups, schemedLine, rt, dt) ==
  LET hits == { g \in 1..Len(groups) : \E m \in 1..Len(groups[g]) :
                  CollinearMatch(schemedLine, groups[g][m], rt, dt) }
      groupDest == groups[SetMin(hits)]
  IN IF hits # {}
     THEN [groups EXCEPT ![SetMin(hits)] =
             Append(groupDest, [schemedLine EXCEPT !.rank = Len(groupDest)])]
     ELSE Append(groups, <<schemedLine>>)

\* CollinearBin without the test of line 71: the last matching group, not the
\* first, ends up in groupDest.
CollinearBinLastFit(groups, schemedLine, rt, dt) ==
  LET hits == { g \in 1..Len(groups) : \E m \in 1..Len(groups[g]) :
                  CollinearMatch(schemedLine, groups[g][m], rt, dt) }
      last == CHOOSE g \in hits : \A h \in hits : h <= g
  IN IF hits # {}
     THEN [groups EXCEPT ![last] = Append(@, schemedLine)]
     ELSE Append(groups, <<schemedLine>>)

\* CollinearBin putting a matched line at the front of its group (unshift for
\* push in line 92).
CollinearBinUnshift(groups, schemedLine, rt, dt) ==
  LET hits == { g \in 1..Len(groups) : \E m \in 1..Len(groups[g]) :
                  CollinearMatch(schemedLine, groups[g][m], rt, dt) }
  IN IF hits # {}
     THEN [groups EXCEPT ![SetMin(hits)] = <<schemedLine>> \o @]
     ELSE Append(groups, <<schemedLine>>)

\* Lines 67-95, one pass of the outer forEach: groupDest is the first group
\* (in creation order) holding a matching member; push there, else start a group.
CollinearBin(groups, schemedLine, rt, dt) ==
  LET hits == { g \in 1..Len(groups) : \E m \in 1..Len(groups[g]) :
                  CollinearMatch(schemedLine, groups[g][m], rt, dt) }
  IN IF hits # {}
     THEN [groups EXCEPT ![SetMin(hits)] = Append(@, schemedLine)]
     ELSE Append(groups, <<schemedLine>>)

\* CollinearityGroups walking schemedLines from its last line to its first.
RECURSIVE CollinearityGroupsBackwards(_, _, _, _)
CollinearityGroupsBackwards(groups, todo, rt, dt) ==
  IF todo = <<>> THEN groups
  ELSE CollinearityGroupsBackwards(CollinearBin(groups, todo[Len(todo)], rt, dt),
                                   SubSeq(todo, 1, Len(todo) - 1), rt, dt)

\* Lines 66-95.
RECURSIVE CollinearityGroups(_, _, _, _)
CollinearityGroups(groups, todo, rt, dt) ==
  IF todo = <<>> THEN groups
  ELSE CollinearityGroups(CollinearBin(groups, Head(todo), rt, dt), Tail(todo), rt, dt)

\* ------------------------------------------- consolidateLinesSchemed, stage 2

\* The clusters of adjacencyGroupsTemp (by index) that the test of line 106
\* reports adjacent to schemedLine.  The push of line 111 changes only the
\* first of them, which is not tested again in the same pass.
AdjacentClusters(adjacencyGroupsTemp, schemedLine, gap) ==
  { c \in 1..Len(adjacencyGroupsTemp) :
      lineGroupAndSegmentAdjacent(adjacencyGroupsTemp[c], schemedLine, gap) }

\* The set S as the ascending sequence of its elements.
RECURSIVE Ascending(_)
Ascending(S) == IF S = {} THEN <<>> ELSE <<SetMin(S)>> \o Ascending(S \ {SetMin(S)})

\* AdjacencyPush without the test of line 119: a matched line also starts a cluster.
AdjacencyPushNoTest(st, schemedLine, hits) ==
  LET adjacencyAssignment == SetMin(hits)
      later == Ascending(hits \ {adjacencyAssignment})
  IN IF hits = {}
     THEN [temp |-> Append(st.temp, <<schemedLine>>),
           merges |-> st.merges,
           assign |-> Append(st.assign, Len(st.temp) + 1)]
     ELSE [temp |-> Append([st.temp EXCEPT ![adjacencyAssignment] = Append(@, schemedLine)],
                           <<schemedLine>>),
           merges |-> st.merges \o
                      [k \in 1..Len(later) |-> <<adjacencyAssignment, later[k]>>],
           assign |-> Append(st.assign, adjacencyAssignment)]

\* Lines 104-126, one pass over a member of the collinearity group, given the
\* clusters (hits) for which the test of line 106 is true.  st holds
\* adjacencyGroupsTemp (temp), adjacencyMerges (merges) and
\* adjacencyAssignments (assign); cluster indices are 1-based here.  The
\* first hit takes the line, every later hit records a merge with the first.
AdjacencyPush(st, schemedLine, hits) ==
  LET adjacencyAssignment == SetMin(hits)
      later == Ascending(hits \ {adjacencyAssignment})
  IN IF hits = {}
     THEN [temp |-> Append(st.temp, <<schemedLine>>),
           merges |-> st.merges,
           assign |-> Append(st.assign, Len(st.temp) + 1)]
     ELSE [temp |-> [st.temp EXCEPT ![adjacencyAssignment] = Append(@, schemedLine)],
           merges |-> st.merges \o
                      [k \in 1..Len(later) |-> <<adjacencyAssignment, later[k]>>],
           assign |-> Append(st.assign, adjacencyAssignment)]

\* Lines 103-126 with the test of line 106.
AdjacencyStep(st, schemedLine, gap) ==
  AdjacencyPush(st, schemedLine, AdjacentClusters(st.temp, schemedLine, gap))

\* Lines 99-127 for one collinearity group.
RECURSIVE AdjacencyAssign(_, _, _)
AdjacencyAssign(st, todo, gap) ==
  IF todo = <<>> THEN st
  ELSE AdjacencyAssign(AdjacencyStep(st, Head(todo), gap), Tail(todo), gap)

AdjacencyOfGroup(lineGroup, gap) ==
  AdjacencyAssign([temp |-> <<>>, merges |-> <<>>, assign |-> <<>>], lineGroup, gap)

\* Lines 99-127 for one collinearity group, for every way the tests of line 106
\* can come out: the states in which line 128 can be reached whatever
\* lineGroupAndSegmentAdjacent answers.
RECURSIVE AdjacencyOutcomes(_, _)
AdjacencyOutcomes(st, todo) ==
  IF todo = <<>> THEN {st}
  ELSE UNION { AdjacencyOutcomes(AdjacencyPush(st, Head(todo), hits), Tail(todo)) :
                 hits \in SUBSET (1..Len(st.temp)) }

\* Lines 134-140: every group whose destination is the source of a merge is
\* re-pointed to the merge's destination, one merge after the other.
RECURSIVE FlattenMerges(_, _)
FlattenMerges(dest, merges) ==
  IF merges = <<>> THEN dest
  ELSE FlattenMerges(
         [i \in 1..Len(dest) |-> IF dest[i] = Head(merges)[2] THEN Head(merges)[1] ELSE dest[i]],
         Tail(merges))

\* Line 132 and lines 134-140.
adjacencyGroupsDestinationsOf(adjacencyGroupsTemp, merges) ==
  FlattenMerges([pos \in 1..Len(adjacencyGroupsTemp) |-> pos], merges)

\* Lines 148-151: the clusters of adjacencyGroupsTemp, as they are, when
\* non-empty.  (mergedGroups of lines 143-146 is built from the destinations
\* and never read.)
DumpGroups(adjacencyGroupsTemp) == SelectSeq(adjacencyGroupsTemp, LAMBDA g : Len(g) > 0)

RECURSIVE Flatten(_)
Flatten(ss) == IF ss = <<>> THEN <<>> ELSE Head(ss) \o Flatten(Tail(ss))

\* ------------------------------------------- consolidateLinesSchemed, stage 3

\* JoinStep with the comparison of line 174 reversed.
JoinStepMaxReversed(acc, schemedLine, schemedLineCount) ==
  LET c == schemedLine.coordinates
      txMin == MinOf(c[1], c[3])
      tyMin == MinOf(c[2], c[4])
      txMax == MaxOf(c[1], c[3])
      tyMax == MaxOf(c[2], c[4])
  IN [xMin |-> IF acc.xMin.null \/ txMin < acc.xMin.n THEN Num(txMin) ELSE acc.xMin,
      yMin |-> IF acc.yMin.null \/ tyMin < acc.yMin.n THEN Num(tyMin) ELSE acc.yMin,
      xMax |-> IF acc.xMax.null \/ txMax < acc.xMax.n THEN Num(txMax) ELSE acc.xMax,
      yMax |-> IF acc.yMax.null \/ tyMax > acc.yMax.n THEN Num(tyMax) ELSE acc.yMax,
      lastAngle |-> Num(schemedLine.angle),
      rank |-> acc.rank + schemedLineCount - schemedLine.rank]

\* JoinStep weighting a member by its position in the cluster, not by its rank.
JoinStepRankOffByOne(acc, schemedLine, schemedLineCount) ==
  LET c == schemedLine.coordinates
      txMin == MinOf(c[1], c[3])
      tyMin == MinOf(c[2], c[4])
      txMax == MaxOf(c[1], c[3])
      tyMax == MaxOf(c[2], c[4])
  IN [xMin |-> IF acc.xMin.null \/ txMin < acc.xMin.n THEN Num(txMin) ELSE acc.xMin,
      yMin |-> IF acc.yMin.null \/ tyMin < acc.yMin.n THEN Num(tyMin) ELSE acc.yMin,
      xMax |-> IF acc.xMax.null \/ txMax > acc.xMax.n THEN Num(txMax) ELSE acc.xMax,
      yMax |-> IF acc.yMax.null \/ tyMax > acc.yMax.n THEN Num(tyMax) ELSE acc.yMax,
      lastAngle |-> Num(schemedLine.angle),
      rank |-> acc.rank + schemedLineCount - (schemedLine.rank + 1)]

\* JoinStep keeping the angle of the first member instead of the last.
JoinStepFirstAngle(acc, schemedLine, schemedLineCount) ==
  LET c == schemedLine.coordinates
      txMin == MinOf(c[1], c[3])
      tyMin == MinOf(c[2], c[4])
      txMax == MaxOf(c[1], c[3])
      tyMax == MaxOf(c[2], c[4])
  IN [xMin |-> IF acc.xMin.null \/ txMin < acc.xMin.n THEN Num(txMin) ELSE acc.xMin,
      yMin |-> IF acc.yMin.null \/ tyMin < acc.yMin.n THEN Num(tyMin) ELSE acc.yMin,
      xMax |-> IF acc.xMax.null \/ txMax > acc.xMax.n THEN Num(txMax) ELSE acc.xMax,
      yMax |-> IF acc.yMax.null \/ tyMax > acc.yMax.n THEN Num(tyMax) ELSE acc.yMax,
      lastAngle |-> IF acc.lastAngle.null THEN Num(schemedLine.angle) ELSE acc.lastAngle,
      rank |-> acc.rank + schemedLineCount - schemedLine.rank]

\* JoinStep assigning the weight of the member to rank (= for += in line 179).
JoinStepRankOverwritten(acc, schemedLine, schemedLineCount) ==
  LET c == schemedLine.coordinates
      txMin == MinOf(c[1], c[3])
      tyMin == MinOf(c[2], c[4])
      txMax == MaxOf(c[1], c[3])
      tyMax == MaxOf(c[2], c[4])
  IN [xMin |-> IF acc.xMin.null \/ txMin < acc.xMin.n THEN Num(txMin) ELSE acc.xMin,
      yMin |-> IF acc.yMin.null \/ tyMin < acc.yMin.n THEN Num(tyMin) ELSE acc.yMin,
      xMax |-> IF acc.xMax.null \/ txMax > acc.xMax.n THEN Num(txMax) ELSE acc.xMax,
      yMax |-> IF acc.yMax.null \/ tyMax > acc.yMax.n THEN Num(tyMax) ELSE acc.yMax,
      lastAngle |-> Num(schemedLine.angle),
      rank |-> schemedLineCount - schemedLine.rank]

\* Lines 166-179, one pass over a member of an adjacency cluster.
JoinStep(acc, schemedLine, schemedLineCount) ==
  LET c == schemedLine.coordinates
      txMin == MinOf(c[1], c[3])
      tyMin == MinOf(c[2], c[4])
      txMax == MaxOf(c[1], c[3])
      tyMax == MaxOf(c[2], c[4])
  IN [xMin |-> IF acc.xMin.null \/ txMin < acc.xMin.n THEN Num(txMin) ELSE acc.xMin,
      yMin |-> IF acc.yMin.null \/ tyMin < acc.yMin.n THEN Num(tyMin) ELSE acc.yMin,
      xMax |-> IF acc.xMax.null \/ txMax > acc.xMax.n THEN Num(txMax) ELSE acc.xMax,
      yMax |-> IF acc.yMax.null \/ tyMax > acc.yMax.n THEN Num(tyMax) ELSE acc.yMax,
      lastAngle |-> Num(schemedLine.angle),
      rank |-> acc.rank + schemedLineCount - schemedLine.rank]

RECURSIVE JoinFold(_, _, _)
JoinFold(acc, todo, schemedLineCount) ==
  IF todo = <<>> THEN acc
  ELSE JoinFold(JoinStep(acc, Head(todo), schemedLineCount), Tail(todo), schemedLineCount)

\* Line 182: which diagonal of the bounding box.
AscendingDiagonal(lastAngle) ==
  \/ NumLt(0, lastAngle) /\ NumLt(lastAngle, mathPi \div 2)
  \/ NumLt(mathPi, lastAngle) /\ NumLt(lastAngle, (mathPi * 3) \div 2)
  \/ NumLt(-mathPi, lastAngle) /\ NumLt(lastAngle, -(mathPi \div 2))

\* BigLinesOf asking for an extent in both axes (&& for the || of line 181).
BigLinesOfBothAxes(lineGroup, schemedLineCount) ==
  LET acc == JoinFold([xMin |-> null, yMin |-> null, xMax |-> null, yMax |-> null,
                       lastAngle |-> null, rank |-> 0], lineGroup, schemedLineCount)
  IN IF /\ ~acc.lastAngle.null /\ ~acc.xMin.null /\ ~acc.yMin.null
        /\ ~acc.xMax.null /\ ~acc.yMax.null
        /\ (acc.xMin.n < acc.xMax.n /\ acc.yMin.n < acc.yMax.n)
     THEN IF AscendingDiagonal(acc.lastAngle.n)
          THEN << [rank |-> acc.rank, line |-> <<acc.xMin.n, acc.yMin.n, acc.xMax.n, acc.yMax.n>>] >>
          ELSE << [rank |-> acc.rank, line |-> <<acc.xMin.n, acc.yMax.n, acc.xMax.n, acc.yMin.n>>] >>
     ELSE <<>>

\* Lines 156-186 for one adjacency cluster: the big lines it adds (none or one).
BigLinesOf(lineGroup, schemedLineCount) ==
  LET acc == JoinFold([xMin |-> null, yMin |-> null, xMax |-> null, yMax |-> null,
                       lastAngle |-> null, rank |-> 0], lineGroup, schemedLineCount)
  IN IF /\ ~acc.lastAngle.null /\ ~acc.xMin.null /\ ~acc.yMin.null
        /\ ~acc.xMax.null /\ ~acc.yMax.null
        /\ (acc.xMin.n < acc.xMax.n \/ acc.yMin.n < acc.yMax.n)
     THEN IF AscendingDiagonal(acc.lastAngle.n)
          THEN << [rank |-> acc.rank, line |-> <<acc.xMin.n, acc.yMin.n, acc.xMax.n, acc.yMax.n>>] >>
          ELSE << [rank |-> acc.rank, line |-> <<acc.xMin.n, acc.yMax.n, acc.xMax.n, acc.yMin.n>>] >>
     ELSE <<>>

\* Lines 154-187.
JoinSegments(groups, schemedLineCount) ==
  Flatten([g \in 1..Len(groups) |-> BigLinesOf(groups[g], schemedLineCount)])

\* ------------------------------------------- consolidateLinesSchemed, stage 4

\* The comparator of line 189: a boolean, used by the engine as 1 or 0.
RankComparator(a, b) == IF a.rank < b.rank THEN 1 ELSE 0

\* An insertion sort that moves an element left past every element the
\* comparator puts after it (comparator > 0) and stops at the first it does not.
RECURSIVE InsertLeft(_, _)
InsertLeft(sorted, element) ==
  IF sorted = <<>> THEN <<element>>
  ELSE LET tmp == sorted[Len(sorted)]
       IN IF RankComparator(tmp, element) > 0
          THEN Append(InsertLeft(SubSeq(sorted, 1, Len(sorted) - 1), element), tmp)
          ELSE Append(sorted, element)

RECURSIVE InsertionSort(_, _)
InsertionSort(sorted, todo) ==
  IF todo = <<>> THEN sorted
  ELSE InsertionSort(InsertLeft(sorted, Head(todo)), Tail(todo))

\* Array.prototype.sort with the comparator of line 189.  The comparator never
\* returns a negative number, so it is not a consistent comparator and the
\* order is left to the engine: a merge sort that moves an element only on a
\* negative result (V8 since 7.0) leaves the array as it is; an insertion sort
\* that moves on a positive result (V8 before 7.0, up to ten elements) sorts
\* by descending rank.
SortOutcomes(bl) == { bl, InsertionSort(<<>>, bl) }

\* Line 191.
Lined(bl) == [i \in 1..Len(bl) |-> bl[i].line]

\* ------------------------------------------- consolidateLinesSchemedBySlope

\* scalarWithinTolerance with <= for the < of line 337.
scalarWithinToleranceOrEqual(a, b, tp) ==
  LET hi == MaxOf(a, b)
      lo == MinOf(a, b)
      c == tp[2] - tp[1]
  IN IF c > 0 THEN c * c * hi <= tp[2] * tp[2] * lo
     ELSE IF c = 0 THEN lo >= 0
     ELSE hi >= 0

\* scalarWithinTolerance(a, b, t) for two lengths given by their radicands and
\* t = tp[1] / tp[2]:  |sqrt a - sqrt b| < max(sqrt a, sqrt b) * t.
scalarWithinTolerance(a, b, tp) ==
  LET hi == MaxOf(a, b)
      lo == MinOf(a, b)
      c == tp[2] - tp[1]
  IN IF c > 0 THEN c * c * hi < tp[2] * tp[2] * lo
     ELSE IF c = 0 THEN lo > 0
     ELSE hi > 0

\* Lines 226-227.
SlopeMatch(schemedLine, prospectiveLineMatch, rt, tp) ==
  /\ NumLt(NumAbsDiff(schemedLine.angle, prospectiveLineMatch.angle), rt)
  /\ scalarWithinTolerance(schemedLine.length, prospectiveLineMatch.length, tp)

\* SlopeBin without the test of line 225: the last matching group, not the
\* first, ends up in groupDest.
SlopeBinLastFit(groups, schemedLine, rt, tp) ==
  LET hits == { g \in 1..Len(groups) : \E m \in 1..Len(groups[g]) :
                  SlopeMatch(schemedLine, groups[g][m], rt, tp) }
      last == CHOOSE g \in hits : \A h \in hits : h <= g
  IN IF hits # {}
     THEN [groups EXCEPT ![last] = Append(@, schemedLine)]
     ELSE Append(groups, <<schemedLine>>)

\* Lines 220-236, one pass of the outer forEach.
SlopeBin(groups, schemedLine, rt, tp) ==
  LET hits == { g \in 1..Len(groups) : \E m \in 1..Len(groups[g]) :
                  SlopeMatch(schemedLine, groups[g][m], rt, tp) }
  IN IF hits # {}
     THEN [groups EXCEPT ![SetMin(hits)] = Append(@, schemedLine)]
     ELSE Append(groups, <<schemedLine>>)

\* consolidateLinesSchemedBySlope with lineGroups of line 219 starting as [[]].
RECURSIVE SlopeGroupsSeeded(_, _, _, _)
SlopeGroupsSeeded(groups, todo, rt, tp) ==
  IF groups = <<>> THEN SlopeGroupsSeeded(<< <<>> >>, todo, rt, tp)
  ELSE IF todo = <<>> THEN groups
  ELSE SlopeGroupsSeeded(SlopeBin(groups, Head(todo), rt, tp), Tail(todo), rt, tp)

\* Lines 219-237.
RECURSIVE consolidateLinesSchemedBySlope(_, _, _, _)
consolidateLinesSchemedBySlope(groups, todo, rt, tp) ==
  IF todo = <<>> THEN groups
  ELSE consolidateLinesSchemedBySlope(SlopeBin(groups, Head(todo), rt, tp), Tail(todo), rt, tp)

\* ------------------------------------------------------------------- state

VARIABLES
  entry,            \* the exported function that was called
  lines,            \* its argument lines
  rtol, dtol, dtolp,\* its tolerance arguments (dtolp as <<num, den>>)
  pc,               \* position inside the call
  schemedLines,     \* analyseLines(lines)
  lineGroups,       \* the collinearity groups (by slope: the returned groups)
  adjacencyGroupsTemp, \* per collinearity group, its adjacencyGroupsTemp
  adjacencyMerges,  \* per collinearity group, its adjacencyMerges
  adjacencyGroupsDestinations, \* per collinearity group, its destinations
  adjacencyGroups,  \* the emitted adjacency clusters
  bigLines,         \* rank/line pairs, one per emitted cluster of non-zero extent
  bigLinesOrdered,  \* bigLines after the sort of line 189
  result,           \* the returned array
  earlier,          \* what the earlier calls of the caller returned, in order
  globalObject,     \* the properties the code sets on the global object
  utility           \* a call of a helper of geometer.js / logician.js on its own

vars == <<entry, lines, rtol, dtol, dtolp, pc, schemedLines, lineGroups,
          adjacencyGroupsTemp, adjacencyMerges, adjacencyGroupsDestinations,
          adjacencyGroups, bigLines, bigLinesOrdered, result, earlier,
          globalObject, utility>>

args == <<entry, lines, rtol, dtol, dtolp>>

\* The global object when the modules are loaded: none of the names the code
\* assigns without declaring them (baseGroupBounds in geometer.js line 349,
\* txMin .. tyMax in lines 166-169) is defined.  A defined name holds <<value>>.
undefinedGlobals ==
  [baseGroupBounds |-> <<>>, txMin |-> <<>>, tyMin |-> <<>>, txMax |-> <<>>, tyMax |-> <<>>]

\* No helper is being called on its own.
noUtilityCall == [function |-> "none"]

\* The cluster that line 106 tested last while the last member of lineGroup was
\* placed: the last cluster of adjacencyGroupsTemp as it was before that member
\* (the push of line 111 follows the test of the cluster it changes).
LastTestedCluster(lineGroup, temp) ==
  LET last == lineGroup[Len(lineGroup)]
      without == [c \in 1..Len(temp) |-> SelectSeq(temp[c], LAMBDA m : m # last)]
      before == SelectSeq(without, LAMBDA cl : cl # <<>>)
  IN before[Len(before)]

\* baseGroupBounds after lines 98-152: geometer.js line 349 assigns it at every
\* call of lineGroupAndSegmentAdjacent, that is for every member but the first
\* of every collinearity group; the last assignment stays.
RECURSIVE baseGroupBoundsAfter(_, _, _)
baseGroupBoundsAfter(old, groups, temps) ==
  IF groups = <<>> THEN old
  ELSE baseGroupBoundsAfter(
         IF Len(Head(groups)) >= 2
         THEN <<linesSchemedToFlatlineByBounds(LastTestedCluster(Head(groups), Head(temps)), TRUE)>>
         ELSE old,
         Tail(groups), Tail(temps))

\* The global object after lines 155-187: lines 166-169 assign txMin .. tyMax
\* for every member of every cluster; those of the last member stay.
GlobalsAfterJoin(old, clusters) ==
  IF clusters = <<>> THEN old
  ELSE LET lineGroup == clusters[Len(clusters)]
           c == lineGroup[Len(lineGroup)].coordinates
       IN [old EXCEPT !.txMin = <<MinOf(c[1], c[3])>>, !.tyMin = <<MinOf(c[2], c[4])>>,
                      !.txMax = <<MaxOf(c[1], c[3])>>, !.tyMax = <<MaxOf(c[2], c[4])>>]

\* Flat lines of the inputs: each scene is a set of lines an input draws from.
\* The first holds two collinear horizontal lines two apart, a slightly rising
\* line through the origin, a parallel line and a zero-length line; the second
\* a vertical line, a diagonal, the same diagonal reversed and an anti-diagonal;
\* the third a slightly falling and a slightly rising line with a horizontal
\* line of length 10 between them in angle, and one of length 15; the fourth a
\* horizontal line drawn right to left, a vertical line drawn downwards and
\* two steep lines on either side of 3 pi / 8.
Scenes ==
  { { <<0, 0, 10, 0>>, <<12, 0, 20, 0>>, <<0, 0, 10, 1>>, <<0, 5, 10, 5>>, <<3, 3, 3, 3>> },
    { <<5, 0, 5, 10>>, <<0, 0, 5, 5>>, <<5, 5, 0, 0>>, <<0, 5, 5, 0>> },
    { <<0, 1, 10, 0>>, <<0, 0, 10, 1>>, <<0, 0, 10, 0>>, <<0, 0, 15, 0>> },
    { <<10, 5, 0, 5>>, <<5, 10, 5, 0>>, <<0, 0, 1, 2>>, <<0, 0, 1, 5>> } }

SeqsUpTo(S, n) == UNION { [1..k -> S] : k \in 0..n }

Inputs == UNION { SeqsUpTo(scene, MaxLines) : scene \in Scenes }

\* The calls: an entry point with its tolerances.  dtolp is not read by
\* consolidateLines and dtol is not read by consolidateLinesBySlope.
Calls ==
  [entry : {"consolidateLines"}, rtol : {0, 100}, dtol : {0, 1, 3}, dtolp : {<<1, 10>>}]
  \cup
  [entry : {"consolidateLinesBySlope"}, rtol : {0, 100}, dtol : {1},
   dtolp : {<<0, 10>>, <<1, 10>>, <<4, 10>>}]

Init ==
  /\ lines \in Inputs
  /\ \E call \in Calls :
       /\ entry = call.entry
       /\ rtol = call.rtol
       /\ dtol = call.dtol
       /\ dtolp = call.dtolp
  /\ pc = "start"
  /\ schemedLines = <<>>
  /\ lineGroups = <<>>
  /\ adjacencyGroupsTemp = <<>>
  /\ adjacencyMerges = <<>>
  /\ adjacencyGroupsDestinations = <<>>
  /\ adjacencyGroups = <<>>
  /\ bigLines = <<>>
  /\ bigLinesOrdered = <<>>
  /\ result = <<>>
  /\ earlier = <<>>
  /\ globalObject = undefinedGlobals
  /\ utility = noUtilityCall

\* analyseLines(lines), the first statement of both entry points.
AnalyseLines ==
  /\ pc = "start"
  /\ schemedLines' = analyseLines(lines)
  /\ pc' = "analysed"
  /\ UNCHANGED <<args, earlier, utility, globalObject, lineGroups, adjacencyGroupsTemp, adjacencyMerges,
                 adjacencyGroupsDestinations, adjacencyGroups, bigLines,
                 bigLinesOrdered, result>>

\* GroupCollinear taking dtolp as a factor of the distance tolerance.
GroupCollinearProportional ==
  /\ pc = "analysed"
  /\ entry = "consolidateLines"
  /\ lineGroups' = CollinearityGroups(<<>>, schemedLines, rtol, dtol * dtolp[1])
  /\ pc' = "grouped"
  /\ UNCHANGED <<args, earlier, utility, globalObject, schemedLines, adjacencyGroupsTemp, adjacencyMerges,
                 adjacencyGroupsDestinations, adjacencyGroups, bigLines,
                 bigLinesOrdered, result>>

\* consolidateLinesSchemed lines 66-95.
GroupCollinear ==
  /\ pc = "analysed"
  /\ entry = "consolidateLines"
  /\ lineGroups' = CollinearityGroups(<<>>, schemedLines, rtol, dtol)
  /\ pc' = "grouped"
  /\ UNCHANGED <<args, earlier, utility, globalObject, schemedLines, adjacencyGroupsTemp, adjacencyMerges,
                 adjacencyGroupsDestinations, adjacencyGroups, bigLines,
                 bigLinesOrdered, result>>

\* consolidateLinesSchemed lines 99-127, for every collinearity group.
AssignAdjacency ==
  /\ pc = "grouped"
  /\ LET st == [g \in 1..Len(lineGroups) |-> AdjacencyOfGroup(lineGroups[g], dtol)]
     IN /\ adjacencyGroupsTemp' = [g \in 1..Len(lineGroups) |-> st[g].temp]
        /\ adjacencyMerges' = [g \in 1..Len(lineGroups) |-> st[g].merges]
  /\ globalObject' =
       [globalObject EXCEPT !.baseGroupBounds =
          baseGroupBoundsAfter(@, lineGroups, adjacencyGroupsTemp')]
  /\ pc' = "assigned"
  /\ UNCHANGED <<args, earlier, utility, schemedLines, lineGroups, adjacencyGroupsDestinations,
                 adjacencyGroups, bigLines, bigLinesOrdered, result>>

\* consolidateLinesSchemed lines 128-151, for every collinearity group.
ResolveMerges ==
  /\ pc = "assigned"
  /\ adjacencyGroupsDestinations' =
       [g \in 1..Len(adjacencyGroupsTemp) |->
          adjacencyGroupsDestinationsOf(adjacencyGroupsTemp[g], adjacencyMerges[g])]
  /\ adjacencyGroups' =
       Flatten([g \in 1..Len(adjacencyGroupsTemp) |-> DumpGroups(adjacencyGroupsTemp[g])])
  /\ pc' = "resolved"
  /\ UNCHANGED <<args, earlier, utility, globalObject, schemedLines, lineGroups, adjacencyGroupsTemp, adjacencyMerges,
                 bigLines, bigLinesOrdered, result>>

\* consolidateLinesSchemed lines 154-187.
Join ==
  /\ pc = "resolved"
  /\ bigLines' = JoinSegments(adjacencyGroups, Len(schemedLines))
  /\ globalObject' = GlobalsAfterJoin(globalObject, adjacencyGroups)
  /\ pc' = "joined"
  /\ UNCHANGED <<args, earlier, utility, schemedLines, lineGroups, adjacencyGroupsTemp, adjacencyMerges,
                 adjacencyGroupsDestinations, adjacencyGroups, bigLinesOrdered, result>>

\* consolidateLinesSchemed lines 189-192.
SortAndReturn ==
  /\ pc = "joined"
  /\ bigLinesOrdered' \in SortOutcomes(bigLines)
  /\ result' = Lined(bigLinesOrdered')
  /\ pc' = "done"
  /\ UNCHANGED <<args, earlier, utility, globalObject, schemedLines, lineGroups, adjacencyGroupsTemp, adjacencyMerges,
                 adjacencyGroupsDestinations, adjacencyGroups, bigLines>>

\* consolidateLinesBySlope line 252.
GroupBySlope ==
  /\ pc = "analysed"
  /\ entry = "consolidateLinesBySlope"
  /\ lineGroups' = consolidateLinesSchemedBySlope(<<>>, schemedLines, rtol, dtolp)
  /\ result' = lineGroups'
  /\ pc' = "done"
  /\ UNCHANGED <<args, earlier, utility, globalObject, schemedLines, adjacencyGroupsTemp, adjacencyMerges,
                 adjacencyGroupsDestinations, adjacencyGroups, bigLines, bigLinesOrdered>>

Next ==
  \/ AnalyseLines
  \/ GroupCollinear
  \/ AssignAdjacency
  \/ ResolveMerges
  \/ Join
  \/ SortAndReturn
  \/ GroupBySlope

Spec == Init /\ [][Next]_vars

\* consolidateLinesSchemed lines 99-127 for every collinearity group, with the
\* answers of lineGroupAndSegmentAdjacent left open.
AssignAdjacencyAnyAnswer ==
  /\ pc = "grouped"
  /\ \E st \in [1..Len(lineGroups) ->
                  UNION { AdjacencyOutcomes([temp |-> <<>>, merges |-> <<>>, assign |-> <<>>],
                                            lineGroups[g]) : g \in 1..Len(lineGroups) }] :
       /\ \A g \in 1..Len(lineGroups) :
            st[g] \in AdjacencyOutcomes([temp |-> <<>>, merges |-> <<>>, assign |-> <<>>],
                                        lineGroups[g])
       /\ adjacencyGroupsTemp' = [g \in 1..Len(lineGroups) |-> st[g].temp]
       /\ adjacencyMerges' = [g \in 1..Len(lineGroups) |-> st[g].merges]
  /\ globalObject' =
       [globalObject EXCEPT !.baseGroupBounds =
          baseGroupBoundsAfter(@, lineGroups, adjacencyGroupsTemp')]
  /\ pc' = "assigned"
  /\ UNCHANGED <<args, earlier, utility, schemedLines, lineGroups, adjacencyGroupsDestinations,
                 adjacencyGroups, bigLines, bigLinesOrdered, result>>

NextAnyAnswer ==
  \/ AnalyseLines
  \/ GroupCollinear
  \/ AssignAdjacencyAnyAnswer
  \/ ResolveMerges
  \/ Join
  \/ SortAndReturn
  \/ GroupBySlope

\* The caller passes what consolidateLines returned to consolidateLines again,
\* with the same tolerances (once).
FeedBack ==
  /\ pc = "done"
  /\ entry = "consolidateLines"
  /\ earlier = <<>>
  /\ earlier' = <<result>>
  /\ lines' = result
  /\ pc' = "start"
  /\ schemedLines' = <<>>
  /\ lineGroups' = <<>>
  /\ adjacencyGroupsTemp' = <<>>
  /\ adjacencyMerges' = <<>>
  /\ adjacencyGroupsDestinations' = <<>>
  /\ adjacencyGroups' = <<>>
  /\ bigLines' = <<>>
  /\ bigLinesOrdered' = <<>>
  /\ result' = <<>>
  /\ UNCHANGED <<entry, rtol, dtol, dtolp, globalObject, utility>>

NextFedBack ==
  \/ Next
  \/ FeedBack

\* The calls, and a second call of consolidateLines on the result of the first.
SpecFedBack == Init /\ [][NextFedBack]_vars

\* The values of dtolp a caller passes on its second call.
OtherDtolp == { <<0, 10>>, <<4, 10>> }

\* The caller calls consolidateLines again with the same lines, rtol and dtol
\* and another dtolp (once).
CallAgain ==
  /\ pc = "done"
  /\ entry = "consolidateLines"
  /\ earlier = <<>>
  /\ earlier' = <<result>>
  /\ dtolp' \in OtherDtolp \ {dtolp}
  /\ pc' = "start"
  /\ schemedLines' = <<>>
  /\ lineGroups' = <<>>
  /\ adjacencyGroupsTemp' = <<>>
  /\ adjacencyMerges' = <<>>
  /\ adjacencyGroupsDestinations' = <<>>
  /\ adjacencyGroups' = <<>>
  /\ bigLines' = <<>>
  /\ bigLinesOrdered' = <<>>
  /\ result' = <<>>
  /\ UNCHANGED <<entry, lines, rtol, dtol, globalObject, utility>>

NextCalledAgain ==
  \/ Next
  \/ CallAgain

\* The calls, and a second call of consolidateLines that differs in dtolp only.
SpecCalledAgain == Init /\ [][NextCalledAgain]_vars

\* The calls with the adjacency stage taken for every answer of its test:
\* what lines 128-151 do with the merges that lines 99-127 can record.
SpecAnyAnswer == Init /\ [][NextAnyAnswer]_vars

\* ------------------------------------------------- helpers of lib/ on their own

\* geometer.js lines 419-428: the statements in order, on a copy of rectI.
rectangleConstrainInRectangle(bounds, rectI) ==
  LET rect0 == rectI
      rect1 == IF rect0[1] < bounds[1] THEN [rect0 EXCEPT ![1] = bounds[1]] ELSE rect0
      rect2 == IF rect1[2] < bounds[2] THEN [rect1 EXCEPT ![2] = bounds[2]] ELSE rect1
      rect3 == IF rect2[3] < 0 THEN [rect2 EXCEPT ![3] = 0] ELSE rect2
      rect4 == IF rect3[4] < 0 THEN [rect3 EXCEPT ![4] = 0] ELSE rect3
      rect5 == IF rect4[1] + rect4[3] > bounds[1] + bounds[3]
               THEN [rect4 EXCEPT ![3] = bounds[1] + bounds[3] - rect4[1]] ELSE rect4
      rect6 == IF rect5[2] + rect5[4] > bounds[2] + bounds[4]
               THEN [rect5 EXCEPT ![4] = bounds[2] + bounds[4] - rect5[2]] ELSE rect5
  IN rect6

\* logician.js line 181: maxGap is maxGapI when that is a number other than
\* NaN, and 0 otherwise.
maxGapOf(maxGapI) ==
  IF maxGapI.type = "number" /\ maxGapI.value # NaN THEN maxGapI.value ELSE 0

\* binRunsStep closing a run one position early (>= for > in line 188).
binRunsStepGapExclusive(st, val, pos, maxGap) ==
  IF val # 0
  THEN [st EXCEPT !.runStart = IF st.runStart.null THEN Num(pos) ELSE @,
                  !.lastHit = Num(pos)]
  ELSE IF ~st.lastHit.null /\ pos >= st.lastHit.n + maxGap
       THEN [runs |-> IF ~st.runStart.null
                      THEN Append(st.runs, <<st.runStart.n, st.lastHit.n + 1>>)
                      ELSE st.runs,
             runStart |-> null,
             lastHit |-> null]
       ELSE st

\* logician.js lines 182-196: the callback of the forEach for one position.
binRunsStep(st, val, pos, maxGap) ==
  IF val # 0
  THEN [st EXCEPT !.runStart = IF st.runStart.null THEN Num(pos) ELSE @,
                  !.lastHit = Num(pos)]
  ELSE IF ~st.lastHit.null /\ pos > st.lastHit.n + maxGap
       THEN [runs |-> IF ~st.runStart.null
                      THEN Append(st.runs, <<st.runStart.n, st.lastHit.n + 1>>)
                      ELSE st.runs,
             runStart |-> null,
             lastHit |-> null]
       ELSE st

\* logician.js line 182: the forEach, from position pos (zero-based) on.
RECURSIVE binRunsFold(_, _, _, _)
binRunsFold(st, rawSeq, pos, maxGap) ==
  IF pos >= Len(rawSeq) THEN st
  ELSE binRunsFold(binRunsStep(st, rawSeq[pos + 1], pos, maxGap), rawSeq, pos + 1, maxGap)

\* logician.js lines 177-204.
binRuns(rawSeq, maxGapI) ==
  LET st == binRunsFold([runs |-> <<>>, runStart |-> null, lastHit |-> null],
                        rawSeq, 0, maxGapOf(maxGapI))
  IN IF ~st.runStart.null /\ ~st.lastHit.null
     THEN Append(st.runs, <<st.runStart.n, st.lastHit.n + 1>>)
     ELSE st.runs

\* The arrays of 1 and 0 that binMinimumValueRuns (logician.js line 230) builds.
RawSeqs == UNION { [1..n -> {0, 1}] : n \in 0..MaxSeq }

\* The maxGap arguments: missing, not a number type, NaN, and numbers.
MaxGaps ==
  { [type |-> "undefined", value |-> 0], [type |-> "string", value |-> 2],
    [type |-> "number", value |-> NaN] }
    \cup { [type |-> "number", value |-> n] : n \in 0..2 }

\* The rectangles [x, y, w, h] of the calls of rectangleConstrainInRectangle:
\* bounds of non-negative width and height, and whole-number rectangles of
\* either sign (rasterer.js line 244 rounds them).
BoundsRectangles == { <<x, 0, w, 2>> : x \in {0, 1}, w \in {0, 3} }

InputRectangles ==
  { <<r[1], r[2], r[3], r[4]>> : r \in (-1..MaxCoordinate) \X {-1, 0, 1} \X {-1, 0, 2, 5} \X {1, 3} }

UtilityCalls ==
  { [function |-> "rectangleConstrainInRectangle", bounds |-> b, rectI |-> r,
     given |-> r, returned |-> FALSE, value |-> <<>>] :
      b \in BoundsRectangles, r \in InputRectangles }
  \cup
  { [function |-> "binRuns", rawSeq |-> q, maxGapI |-> g,
     returned |-> FALSE, value |-> <<>>] :
      q \in RawSeqs, g \in MaxGaps }

\* A helper of lib/ is called on its own; no consolidation is in progress.
InitUtilities ==
  /\ utility \in UtilityCalls
  /\ entry = "none"
  /\ pc = "none"
  /\ lines = <<>>
  /\ rtol = 0
  /\ dtol = 0
  /\ dtolp = <<0, 1>>
  /\ schemedLines = <<>>
  /\ lineGroups = <<>>
  /\ adjacencyGroupsTemp = <<>>
  /\ adjacencyMerges = <<>>
  /\ adjacencyGroupsDestinations = <<>>
  /\ adjacencyGroups = <<>>
  /\ bigLines = <<>>
  /\ bigLinesOrdered = <<>>
  /\ result = <<>>
  /\ earlier = <<>>
  /\ globalObject = undefinedGlobals

\* geometer.rectangleConstrainInRectangle(bounds, rectI): line 420 copies
\* rectI and every assignment is to the copy, which is returned.
ConstrainRectangle ==
  /\ utility.function = "rectangleConstrainInRectangle"
  /\ ~utility.returned
  /\ utility' = [utility EXCEPT
                   !.returned = TRUE,
                   !.value = rectangleConstrainInRectangle(utility.bounds, utility.rectI)]
  /\ UNCHANGED <<args, pc, schemedLines, lineGroups, adjacencyGroupsTemp, adjacencyMerges,
                 adjacencyGroupsDestinations, adjacencyGroups, bigLines,
                 bigLinesOrdered, result, earlier, globalObject>>

\* logician.binRuns(rawSeq, maxGapI).
BinRuns ==
  /\ utility.function = "binRuns"
  /\ ~utility.returned
  /\ utility' = [utility EXCEPT
                   !.returned = TRUE,
                   !.value = binRuns(utility.rawSeq, utility.maxGapI)]
  /\ UNCHANGED <<args, pc, schemedLines, lineGroups, adjacencyGroupsTemp, adjacencyMerges,
                 adjacencyGroupsDestinations, adjacencyGroups, bigLines,
                 bigLinesOrdered, result, earlier, globalObject>>

NextUtilities ==
  \/ ConstrainRectangle
  \/ BinRuns

SpecUtilities == InitUtilities /\ [][NextUtilities]_vars

\* ------------------------------------------------------------ properties

Range(seq) == { seq[i] : i \in 1..Len(seq) }

RECURSIVE SumLen(_)
SumLen(ss) == IF ss = <<>> THEN 0 ELSE Len(Head(ss)) + SumLen(Tail(ss))

\* The positions <<g, m>> of groups at which the line x is found.
PositionsOf(groups, x) ==
  { gm \in UNION { { <<g, m>> : m \in 1..Len(groups[g]) } : g \in 1..Len(groups) } :
      groups[gm[1]][gm[2]] = x }

\* groups holds every schemed line of the call at exactly one position, and
\* nothing else, and none of its groups is empty.
IsPartition(groups) ==
  /\ \A g \in 1..Len(groups) : Len(groups[g]) > 0
  /\ \A i \in 1..Len(schemedLines) : Cardinality(PositionsOf(groups, schemedLines[i])) = 1
  /\ SumLen(groups) = Len(schemedLines)

Consolidating == entry = "consolidateLines"

\* C1: the collinearity groups built by consolidateLines partition the input:
\* every annotated segment is in exactly one group, exactly once, no group is
\* empty, nothing is dropped or duplicated.
C1_GroupsPartitionInput ==
  (Consolidating /\ pc \in {"grouped", "assigned", "resolved", "joined", "done"})
    => IsPartition(lineGroups)

\* C1 witness: a grouping with several groups, one of them with several members.
C1_Witness ==
  /\ Consolidating /\ pc = "grouped"
  /\ Len(lineGroups) >= 2
  /\ \E g \in 1..Len(lineGroups) : Len(lineGroups[g]) >= 2

\* C2: after merge resolution every member of a collinearity group is in
\* exactly one emitted adjacency cluster, no emitted cluster is empty, and the
\* members of a cluster all come from one collinearity group.
C2_ClustersPartitionGroups ==
  (Consolidating /\ pc \in {"resolved", "joined", "done"})
    => /\ IsPartition(adjacencyGroups)
       /\ \A c \in 1..Len(adjacencyGroups) : \E g \in 1..Len(lineGroups) :
            Range(adjacencyGroups[c]) \subseteq Range(lineGroups[g])

\* C2 witness: clusters were emitted for several groups, one cluster with
\* several members.
C2_Witness ==
  /\ Consolidating /\ pc = "resolved"
  /\ Len(adjacencyGroups) >= 2
  /\ \E c \in 1..Len(adjacencyGroups) : Len(adjacencyGroups[c]) >= 2

Xs(cluster) == UNION { { m.coordinates[1], m.coordinates[3] } : m \in Range(cluster) }

Ys(cluster) == UNION { { m.coordinates[2], m.coordinates[4] } : m \in Range(cluster) }

SetMax(S) == CHOOSE x \in S : \A y \in S : x >= y

\* The bounding box of a cluster has a non-zero extent in some axis.
HasExtent(cluster) ==
  SetMin(Xs(cluster)) < SetMax(Xs(cluster)) \/ SetMin(Ys(cluster)) < SetMax(Ys(cluster))

\* The emitted clusters that have a non-zero extent, in order.
ExtendedClusters == SelectSeq(adjacencyGroups, HasExtent)

\* Two horizontal, non-degenerate flat lines at the same height.
HorizontalPair(l1, l2) ==
  /\ l1[2] = l1[4] /\ l2[2] = l2[4] /\ l1[2] = l2[2]
  /\ l1[1] # l1[3] /\ l2[1] # l2[3]

\* The distance between the facing endpoints of two horizontal lines
\* (negative when they overlap).
FacingGap(l1, l2) ==
  MaxOf(MinOf(l1[1], l1[3]), MinOf(l2[1], l2[3])) - MinOf(MaxOf(l1[1], l1[3]), MaxOf(l2[1], l2[3]))

\* C4: two collinear horizontal segments whose facing endpoints are at most
\* dtol apart come out of consolidateLines (with a positive rtol) as exactly one
\* segment spanning both; (0,0,10,0) and (12,0,20,0) with dtol = 3 give (0,0,20,0).
C4_NearHorizontalPairMerges ==
  (/\ Consolidating /\ pc = "done" /\ rtol > 0 /\ Len(lines) = 2
   /\ HorizontalPair(lines[1], lines[2])
   /\ FacingGap(lines[1], lines[2]) >= 0
   /\ FacingGap(lines[1], lines[2]) <= dtol)
    => result = << << SetMin({lines[1][1], lines[1][3], lines[2][1], lines[2][3]}),
                      lines[1][2],
                      SetMax({lines[1][1], lines[1][3], lines[2][1], lines[2][3]}),
                      lines[1][2] >> >>

\* C4 witness: scenario A has run to its end.
C4_Witness ==
  /\ Consolidating /\ pc = "done" /\ rtol > 0 /\ dtol = 3
  /\ lines = << <<0, 0, 10, 0>>, <<12, 0, 20, 0>> >>
  /\ result = << <<0, 0, 20, 0>> >>

\* C5: two collinear horizontal segments that do not overlap and whose facing
\* endpoints are more than dtol apart come out as two separate segments;
\* (0,0,10,0) and (12,0,20,0) with dtol = 1 stay two.
C5_FarHorizontalPairStaysApart ==
  (/\ Consolidating /\ pc = "done" /\ Len(lines) = 2
   /\ HorizontalPair(lines[1], lines[2])
   /\ FacingGap(lines[1], lines[2]) > dtol
   /\ dtol >= 0)
    => Len(result) = 2

\* C6: the returned sequence is ordered by descending aggregateRank, and the
\* returned items are the bare lines of the ordered rank/line pairs.  (Ties by
\* ascending lowest original rank follow from stability: bigLines is built in
\* ascending order of the clusters' first members.)
C6_ResultDescendingByRank ==
  (Consolidating /\ pc = "done")
    => /\ \A i, j \in 1..Len(bigLinesOrdered) :
            i < j => bigLinesOrdered[i].rank >= bigLinesOrdered[j].rank
       /\ result = [i \in 1..Len(bigLinesOrdered) |-> bigLinesOrdered[i].line]

RECURSIVE SumWeights(_, _)
SumWeights(cluster, n) ==
  IF cluster = <<>> THEN 0 ELSE (n - Head(cluster).rank) + SumWeights(Tail(cluster), n)

\* C7: the aggregateRank of each consolidated segment is the sum over the
\* members of its cluster of (N - member.rank), N the number of input segments
\* and member.rank the member's index in the input.
C7_AggregateRankIsSumOfWeights ==
  (Consolidating /\ pc \in {"joined", "done"})
    => /\ Len(bigLines) = Len(ExtendedClusters)
       /\ \A k \in 1..Len(bigLines) :
            bigLines[k].rank = SumWeights(ExtendedClusters[k], Len(lines))
       /\ \A i \in 1..Len(schemedLines) :
            schemedLines[i].rank = i - 1 /\ schemedLines[i].coordinates = lines[i]

\* C7 witness: a cluster of several members, not the first of the input, was joined.
C7_Witness ==
  /\ Consolidating /\ pc = "joined"
  /\ \E k \in 1..Len(bigLines) :
       /\ Len(ExtendedClusters[k]) >= 2
       /\ ExtendedClusters[k][1].rank > 0
       /\ bigLines[k].rank > 0

\* C8: each adjacency cluster gives exactly one consolidated segment whose
\* corners are the least and greatest x and y over the endpoints of all its
\* members, and a cluster gives nothing exactly when that box has zero extent
\* in both axes.
C8_OneBoundingSegmentPerCluster ==
  (Consolidating /\ pc \in {"joined", "done"})
    => /\ Len(bigLines) = Len(ExtendedClusters)
       /\ \A k \in 1..Len(bigLines) :
            LET cl == ExtendedClusters[k]
                ln == bigLines[k].line
            IN /\ ln[1] = SetMin(Xs(cl)) /\ ln[3] = SetMax(Xs(cl))
               /\ {ln[2], ln[4]} = {SetMin(Ys(cl)), SetMax(Ys(cl))}

\* C8 witness: one cluster was dropped for zero extent and another, whose box
\* is larger than each of its members, was joined.
C8_Witness ==
  /\ Consolidating /\ pc = "joined"
  /\ \E c \in 1..Len(adjacencyGroups) : ~HasExtent(adjacencyGroups[c])
  /\ \E k \in 1..Len(bigLines) : \A m \in 1..Len(ExtendedClusters[k]) :
       bigLines[k].line[3] - bigLines[k].line[1] >
         Abs(ExtendedClusters[k][m].coordinates[3] - ExtendedClusters[k][m].coordinates[1])

\* The angle lies strictly inside (0, pi/2), (pi, 3pi/2) or (-pi, -pi/2).
InRisingWindow(a) ==
  /\ a # NaN
  /\ \/ 0 < a /\ a < 900
     \/ 1800 < a /\ a < 2700
     \/ -1800 < a /\ a < -900

\* C9: the diagonal of a consolidated segment is decided by the angle of the
\* last-inserted member of its cluster alone: inside the rising window it is
\* (xMin,yMin,xMax,yMax), otherwise (xMin,yMax,xMax,yMin).
C9_DiagonalFromLastMember ==
  (Consolidating /\ pc \in {"joined", "done"})
    => /\ Len(bigLines) = Len(ExtendedClusters)
       /\ \A k \in 1..Len(bigLines) :
            LET cl == ExtendedClusters[k]
                last == cl[Len(cl)]
            IN bigLines[k].line =
                 IF InRisingWindow(last.angle)
                 THEN <<SetMin(Xs(cl)), SetMin(Ys(cl)), SetMax(Xs(cl)), SetMax(Ys(cl))>>
                 ELSE <<SetMin(Xs(cl)), SetMax(Ys(cl)), SetMax(Xs(cl)), SetMin(Ys(cl))>>

\* C9 witness: a joined cluster of non-zero height whose first member is inside
\* the rising window and whose last member is not.
C9_Witness ==
  /\ Consolidating /\ pc = "joined"
  /\ \E k \in 1..Len(bigLines) :
       LET cl == ExtendedClusters[k]
       IN /\ InRisingWindow(cl[1].angle)
          /\ ~InRisingWindow(cl[Len(cl)].angle)
          /\ bigLines[k].line[2] > bigLines[k].line[4]

\* C10: an empty input to consolidateLines or to consolidateLinesBySlope runs
\* to its end with every tolerance (no step fails) and returns an empty array.
C10_EmptyInputEmptyOutput ==
  lines = <<>> => IF pc = "done" THEN result = <<>> ELSE ENABLED Next

\* C10 witness: both entry points have returned on an empty input.
C10_Witness ==
  /\ lines = <<>> /\ pc = "done" /\ result = <<>>
  /\ entry = "consolidateLinesBySlope"

\* Every schemed line of a sequence of groups (or clusters).
Members(groups) == UNION { Range(groups[g]) : g \in 1..Len(groups) }

\* C11: a zero-length input segment is rejected or skipped by the annotator:
\* analyseLines emits no schemed line for it, and no schemed line whose angle
\* is NaN is placed in a collinearity group, an adjacency cluster or a
\* slope-length group.
C11_ZeroLengthIsRejected ==
  /\ pc # "start" =>
       \A i \in 1..Len(schemedLines) :
         /\ schemedLines[i].angle # NaN
         /\ schemedLines[i].length # 0
  /\ \A m \in Members(lineGroups) \cup Members(adjacencyGroups) : m.angle # NaN

\* A tolerance the called entry point reads is zero or negative: rtol for both,
\* dtol for consolidateLines, dtolp for consolidateLinesBySlope.
NonPositiveTolerance ==
  \/ rtol <= 0
  \/ entry = "consolidateLines" /\ dtol <= 0
  \/ entry = "consolidateLinesBySlope" /\ dtolp[1] <= 0

\* C12: a call with a non-positive tolerance fails before anything is done: no
\* line is annotated, grouped or merged and the call never reaches its return.
C12_NonPositiveToleranceFailsFast ==
  NonPositiveTolerance =>
    /\ pc = "start"
    /\ schemedLines = <<>> /\ lineGroups = <<>> /\ adjacencyGroups = <<>>
    /\ result = <<>>

\* C13: consolidateLines is idempotent: called again on what it returned, with
\* the same rtol and dtol, it returns the same set of segments.
C13_ConsolidationIsIdempotent ==
  (Consolidating /\ pc = "done" /\ earlier # <<>>)
    => Range(result) = Range(earlier[1])

\* C14: analyseLines returns one schemed line per input line, in input order:
\* as many as the input has, the i-th carrying the coordinates of the i-th
\* input line unchanged and, as rank, its (zero-based) index in the input.
C14_OneSchemedLinePerInputLine ==
  pc # "start" =>
    /\ Len(schemedLines) = Len(lines)
    /\ \A i \in 1..Len(lines) :
         /\ schemedLines[i].coordinates = lines[i]
         /\ schemedLines[i].rank = i - 1

\* C14 witness: an input of several lines, not all the same, one of them
\* repeated, was analysed.
C14_Witness ==
  /\ pc = "analysed"
  /\ Len(schemedLines) >= 3
  /\ lines[1] # lines[2]
  /\ lines[1] = lines[3]
  /\ schemedLines[3].rank = 2

\* Every schemed line held by a later stage: in a collinearity or slope-length
\* group, in a cluster being built or in an emitted cluster.
HeldSchemedLines ==
  Members(lineGroups) \cup Members(Flatten(adjacencyGroupsTemp)) \cup Members(adjacencyGroups)

\* C15: no step of a call changes the caller's lines, no step after the
\* annotation changes a schemed line, and every schemed line a later stage
\* holds is, field for field (rank, angle, length, intercepts, coordinates),
\* one that analyseLines returned, its coordinates those of the input line of
\* its rank.
C15_LaterStagesModifyNothing ==
  [][/\ lines' = lines
     /\ pc # "start" => schemedLines' = schemedLines
     /\ HeldSchemedLines' \subseteq Range(schemedLines')
     /\ \A m \in HeldSchemedLines' : m.coordinates = lines'[m.rank + 1]]_vars

\* C15 witness: a call of consolidateLines has returned a line that is none of
\* its input lines, made of a cluster of several members, the last of them not
\* the last of the input.
C15_Witness ==
  /\ Consolidating /\ pc = "done"
  /\ \E k \in 1..Len(result) : result[k] \notin Range(lines)
  /\ \E c \in 1..Len(adjacencyGroups) :
       /\ Len(adjacencyGroups[c]) >= 2
       /\ adjacencyGroups[c][Len(adjacencyGroups[c])].rank < Len(lines) - 1

\* C16: a horizontal line of non-zero length at height y is annotated with
\* angle 0, a y-intercept equal to y and no x-intercept; a vertical line of
\* non-zero length at abscissa x with angle pi/2, an x-intercept equal to x and
\* no y-intercept.  (0,5,10,5) gives 0 and yint 5, (5,0,5,10) gives pi/2 and
\* xint 5.
C16_AxisAlignedIntercepts ==
  \A i \in 1..Len(schemedLines) :
    LET c == lines[i]
        s == schemedLines[i]
    IN /\ (c[2] = c[4] /\ c[1] # c[3]) =>
            /\ s.angle = 0
            /\ IsNumber(s.yint) /\ s.yint[1] = c[2] * s.yint[2]
            /\ ~IsNumber(s.xint)
       /\ (c[1] = c[3] /\ c[2] # c[4]) =>
            /\ 2 * s.angle = mathPi
            /\ IsNumber(s.xint) /\ s.xint[1] = c[1] * s.xint[2]
            /\ ~IsNumber(s.yint)

\* C16 witness: a horizontal line drawn right to left and a vertical line drawn
\* downwards were analysed: angle 0 with yint 5, angle pi/2 with xint 5.
C16_Witness ==
  /\ pc = "analysed"
  /\ lines = << <<10, 5, 0, 5>>, <<5, 10, 5, 0>> >>
  /\ schemedLines[1].angle = 0 /\ schemedLines[1].yint = <<50, 10>>
  /\ schemedLines[1].xint = NoNumber
  /\ schemedLines[2].angle = 900 /\ schemedLines[2].xint = <<50, 10>>
  /\ schemedLines[2].yint = NoNumber

\* The angle a, a number, lies in the window of line 30 / of line 34.
InXWindow(a) == 8 * a > mathPi /\ 8 * a < 7 * mathPi

InYWindow(a) == (8 * a > -3 * mathPi /\ 8 * a < 3 * mathPi) \/ 8 * a > 5 * mathPi

\* C17: for every line of non-zero length, with dx = x1 - x0 and dy = y1 - y0,
\* the angle lies in [-pi/2, pi]; an x-intercept is attached exactly when the
\* angle is strictly inside (pi/8, 7pi/8) and is x0 - y0 * (dx / dy); a
\* y-intercept is attached exactly when the angle is strictly inside
\* (-3pi/8, 3pi/8) or above 5pi/8 and is y0 - x0 * (dy / dx); an angle in both
\* windows gives both.
C17_InterceptsByAngleWindow ==
  \A i \in 1..Len(schemedLines) :
    LET c == lines[i]
        s == schemedLines[i]
        dx == c[3] - c[1]
        dy == c[4] - c[2]
    IN (dx # 0 \/ dy # 0) =>
         /\ s.angle # NaN /\ 2 * s.angle >= -mathPi /\ s.angle <= mathPi
         /\ IsNumber(s.xint) <=> InXWindow(s.angle)
         /\ IsNumber(s.xint) => dy # 0 /\ s.xint[1] * dy = (c[1] * dy - c[2] * dx) * s.xint[2]
         /\ IsNumber(s.yint) <=> InYWindow(s.angle)
         /\ IsNumber(s.yint) => dx # 0 /\ s.yint[1] * dx = (c[2] * dx - c[1] * dy) * s.yint[2]

\* C17 witness: an input was analysed that holds a steep line inside the x
\* window only, (0,0,1,5) with xint 0, and a line inside both windows.
C17_Witness ==
  /\ pc = "analysed"
  /\ \E i, j \in 1..Len(schemedLines) :
       /\ IsNumber(schemedLines[i].xint) /\ ~IsNumber(schemedLines[i].yint)
       /\ schemedLines[i].xint[1] = 0 /\ schemedLines[i].coordinates = <<0, 0, 1, 5>>
       /\ IsNumber(schemedLines[j].xint) /\ IsNumber(schemedLines[j].yint)
       /\ schemedLines[j].angle < 675 /\ schemedLines[j].angle > 450

\* A flat line along an axis, and its length (no square root needed).
AxisAligned(c) == c[1] = c[3] \/ c[2] = c[4]

AxisLength(c) == Abs(c[3] - c[1]) + Abs(c[4] - c[2])

FirstFit(groups, Match(_, _)) ==
  /\ \A g, h \in 1..Len(groups) : g < h => groups[g][1].rank < groups[h][1].rank
  /\ \A g \in 1..Len(groups) : \A m \in 1..Len(groups[g]) :
       LET x == groups[g][m]
           matching == { h \in 1..Len(groups) : \E k \in 1..Len(groups[h]) :
                           groups[h][k].rank < x.rank /\ Match(x, groups[h][k]) }
       IN IF m = 1 THEN matching = {} ELSE matching # {} /\ g = SetMin(matching)

\* C19: consolidateLinesBySlope returns the first-fit groups as they were
\* formed: every schemed line is in exactly one returned group, as analyseLines
\* made it; each was added to the first group, in creation order, holding a
\* matching member, and started a group only when no group held one.
C19_SlopeGroupsAreFirstFit ==
  (entry = "consolidateLinesBySlope" /\ pc = "done")
    => /\ IsPartition(result)
       /\ Members(result) \subseteq Range(schemedLines)
       /\ FirstFit(result, LAMBDA a, b : SlopeMatch(a, b, rtol, dtolp))

\* C19 witness: the third line matched a member of each of two groups and was
\* returned in the first.
C19_Witness ==
  /\ entry = "consolidateLinesBySlope" /\ pc = "done"
  /\ Len(lines) = 3 /\ Len(result) = 2
  /\ Len(result[1]) = 2 /\ result[1][2].rank = 2
  /\ SlopeMatch(result[1][2], result[2][1], rtol, dtolp)

\* Lines 80-82 in the words of the contract: the angles differ by less than
\* rtol, and both lines have a y-intercept and these differ by at most dtol, or
\* both have an x-intercept and these differ by at most dtol.
WithinTolerances(a, b) ==
  /\ a.angle # NaN /\ b.angle # NaN /\ Abs(a.angle - b.angle) < rtol
  /\ \/ /\ a.yint # NoNumber /\ b.yint # NoNumber
        /\ Abs(a.yint[1] * b.yint[2] - b.yint[1] * a.yint[2]) <= dtol * a.yint[2] * b.yint[2]
     \/ /\ a.xint # NoNumber /\ b.xint # NoNumber
        /\ Abs(a.xint[1] * b.xint[2] - b.xint[1] * a.xint[2]) <= dtol * a.xint[2] * b.xint[2]

\* C20: the collinearity groups are first-fit: in input order, each schemed
\* line is appended to the first group, in creation order, that holds a member
\* within the tolerances of it, and starts a new group of its own if and only
\* if no group holds such a member.
C20_CollinearityGroupsAreFirstFit ==
  (Consolidating /\ pc \in {"grouped", "assigned", "resolved", "joined", "done"})
    => FirstFit(lineGroups, WithinTolerances)

\* C20 witness: the third line was within the tolerances of a member of each
\* of two groups, through the y-intercept, and was appended to the first.
C20_Witness ==
  /\ Consolidating /\ pc = "grouped"
  /\ Len(lines) = 3 /\ Len(lineGroups) = 2
  /\ Len(lineGroups[1]) = 2 /\ lineGroups[1][2].rank = 2
  /\ WithinTolerances(lineGroups[1][2], lineGroups[2][1])
  /\ ~WithinTolerances(lineGroups[1][1], lineGroups[2][1])

\* C21: the result of consolidateLines does not depend on dtolp: a second call
\* with the same lines, rtol and dtol and another dtolp returns what the first
\* returned (the first result is the result of the second call's sort, on the
\* engine that sorted the first).
C21_ResultIndependentOfDtolp ==
  (Consolidating /\ pc = "done" /\ earlier # <<>>)
    => /\ earlier[1] \in { Lined(ordered) : ordered \in SortOutcomes(bigLines) }
       /\ result \in { Lined(ordered) : ordered \in SortOutcomes(bigLines) }

\* C21 witness: a second call with another dtolp has returned the merged line
\* that the first call returned.
C21_Witness ==
  /\ Consolidating /\ pc = "done" /\ earlier # <<>>
  /\ dtolp = <<4, 10>>
  /\ lines = << <<0, 0, 10, 0>>, <<0, 5, 10, 5>>, <<12, 0, 20, 0>> >>
  /\ rtol = 100 /\ dtol = 3
  /\ earlier[1] = result
  /\ Len(result) = 2

\* C22: a call writes no state that outlives it: no name is ever defined on
\* the global object by a call of either entry point.
C22_NoGlobalIsWritten ==
  globalObject = undefinedGlobals

\* The two endpoints of a flat line.
Endpoints(line) == { <<line[1], line[2]>>, <<line[3], line[4]>> }

\* Condition (a) or (b) of the adjacency rule for a flat reference line, a
\* candidate and a tolerance: an endpoint of the candidate projects into the
\* span of the reference line and is within the tolerance of its projection,
\* or is within the tolerance of an endpoint of the reference line.
ProjectsOrTouches(reference, candidate, tol) ==
  \/ \E p \in Endpoints(candidate) :
       line2dProjectedPointWithinTolerance(reference, p, tol)
  \/ \E p \in Endpoints(candidate), e \in Endpoints(reference) :
       (p[1] - e[1]) * (p[1] - e[1]) + (p[2] - e[2]) * (p[2] - e[2]) <= tol * tol

\* C23: a line is appended to an adjacency cluster only if one of its endpoints
\* projects into the span of the cluster's reference bounding line within dtol
\* of the projection, or lies within dtol of an endpoint of that reference
\* line; the reference line is the one the code computes for the cluster as it
\* was when the line was tested.
C23_AppendedOnlyIfProjectsOrTouches ==
  (Consolidating /\ pc = "assigned")
    => \A g \in 1..Len(adjacencyGroupsTemp) : \A c \in 1..Len(adjacencyGroupsTemp[g]) :
         LET cluster == adjacencyGroupsTemp[g][c]
         IN \A k \in 2..Len(cluster) :
              ProjectsOrTouches(
                linesSchemedToFlatlineByBounds(SubSeq(cluster, 1, k - 1), TRUE),
                cluster[k].coordinates, dtol)

\* The collinearity group whose last line was the last to be tested for adjacency.
LastTestedGroup ==
  SetMax({ g \in 1..Len(lineGroups) : Len(lineGroups[g]) >= 2 })

\* C24: the reference bounding line of an adjacency test spans all the members
\* the cluster has when it is tested: the reference line left by the last test
\* of a call has as corners the least and the greatest x and y over the
\* endpoints of every member of the cluster that was tested.
C24_ReferenceLineSpansAllMembers ==
  (Consolidating /\ pc = "assigned" /\ globalObject.baseGroupBounds # <<>>)
    => LET baseGroupBounds == globalObject.baseGroupBounds[1]
           cluster == LastTestedCluster(lineGroups[LastTestedGroup],
                                        adjacencyGroupsTemp[LastTestedGroup])
       IN /\ { baseGroupBounds[1], baseGroupBounds[3] }
               = { SetMin(Xs(cluster)), SetMax(Xs(cluster)) }
          /\ { baseGroupBounds[2], baseGroupBounds[4] }
               = { SetMin(Ys(cluster)), SetMax(Ys(cluster)) }

\* The index of the group of groups that holds x.
GroupOf(groups, x) == CHOOSE g \in 1..Len(groups) : x \in Range(groups[g])

\* The sets of flat lines held together by the groups.
GroupedCoordinates(groups) ==
  { { groups[g][m].coordinates : m \in 1..Len(groups[g]) } : g \in 1..Len(groups) }

\* C25: the collinearity grouping is order-dependent first-fit: whenever two
\* lines within the tolerances of each other are in different groups, the
\* later of the two is in a group created before the group of the earlier one,
\* where it matched a member that came before it.
C25_SplitPairsMatchedAnEarlierGroup ==
  (Consolidating /\ pc \in {"grouped", "assigned", "resolved", "joined", "done"})
    => \A a, b \in Members(lineGroups) :
         (/\ a.rank < b.rank
          /\ WithinTolerances(a, b)
          /\ GroupOf(lineGroups, a) # GroupOf(lineGroups, b))
           => /\ GroupOf(lineGroups, b) < GroupOf(lineGroups, a)
              /\ \E m \in Range(lineGroups[GroupOf(lineGroups, b)]) :
                   m.rank < b.rank /\ WithinTolerances(b, m)

\* C25 witness: the second and the third line are within the tolerances of each
\* other and in different groups, the third having matched the first; the same
\* three lines in the order second, third, first are grouped differently (all
\* three together).
C25_Witness ==
  /\ Consolidating /\ pc = "grouped"
  /\ lines = << <<0, 1, 10, 0>>, <<0, 0, 10, 1>>, <<0, 0, 10, 0>> >>
  /\ rtol = 100 /\ dtol = 1
  /\ WithinTolerances(schemedLines[2], schemedLines[3])
  /\ GroupOf(lineGroups, schemedLines[2]) = 2
  /\ GroupOf(lineGroups, schemedLines[3]) = 1
  /\ LET permuted == << lines[2], lines[3], lines[1] >>
         regrouped == CollinearityGroups(<<>>, analyseLines(permuted), rtol, dtol)
     IN /\ GroupedCoordinates(regrouped) # GroupedCoordinates(lineGroups)
        /\ Len(regrouped) = 1

\* C26: for bounds of non-negative width and height and any input rectangle,
\* rectangleConstrainInRectangle returns [x, y, w, h] inside the bounds, with
\* w and h not negative, and inside the input rectangle; the array it was
\* given is as it was.
C26_ConstrainedRectangleInsideBoundsAndInput ==
  (utility.function = "rectangleConstrainInRectangle" /\ utility.returned
     /\ utility.bounds[3] >= 0 /\ utility.bounds[4] >= 0)
    => LET bounds == utility.bounds
           given == utility.given
           rect == utility.value
       IN /\ Len(rect) = 4
          /\ rect[1] >= bounds[1] /\ rect[2] >= bounds[2]
          /\ rect[3] >= 0 /\ rect[4] >= 0
          /\ rect[1] + rect[3] <= bounds[1] + bounds[3]
          /\ rect[2] + rect[4] <= bounds[2] + bounds[4]
          /\ (given[3] >= 0 /\ given[4] >= 0)
               => /\ rect[1] >= given[1] /\ rect[2] >= given[2]
                  /\ rect[1] + rect[3] <= given[1] + given[3]
                  /\ rect[2] + rect[4] <= given[2] + given[4]
          /\ utility.rectI = given

\* position (zero-based) of rawSeq holds a truthy value.
Truthy(rawSeq, position) == rawSeq[position + 1] # 0

\* The run of runs (by index) that covers the position.
RunsCovering(runs, position) ==
  { r \in 1..Len(runs) : runs[r][1] <= position /\ position < runs[r][2] }

\* runs are the maximal runs of rawSeq for the gap: pairs of an inclusive
\* start and an exclusive stop, increasing and apart; each starts and ends on
\* a truthy position; every truthy position is in exactly one; two truthy
\* positions with only falsy ones between them share a run exactly when at
\* most gap positions lie between them.
MaximalRuns(runs, rawSeq, gap) ==
  LET positions == 0..(Len(rawSeq) - 1)
      truthy == { p \in positions : Truthy(rawSeq, p) }
  IN /\ \A r \in 1..Len(runs) :
          /\ Len(runs[r]) = 2
          /\ runs[r][1] \in truthy
          /\ runs[r][2] - 1 \in truthy
          /\ runs[r][1] < runs[r][2]
     /\ \A r \in 1..(Len(runs) - 1) : runs[r][2] <= runs[r + 1][1]
     /\ \A p \in truthy : Cardinality(RunsCovering(runs, p)) = 1
     /\ \A p, q \in truthy :
          (p < q /\ \A between \in (p + 1)..(q - 1) : between \notin truthy)
            => ((RunsCovering(runs, p) = RunsCovering(runs, q)) <=> (q - p - 1 <= gap))

\* C27: binRuns returns exactly the maximal runs of truthy positions for
\* maxGap, as start (inclusive) / stop (exclusive) pairs in increasing order;
\* a maxGap that is missing, not a number or NaN counts as 0.
C27_BinRunsAreTheMaximalRuns ==
  (utility.function = "binRuns" /\ utility.returned)
    => MaximalRuns(utility.value, utility.rawSeq,
                   IF utility.maxGapI.type = "number" /\ utility.maxGapI.value \in 0..2
                   THEN utility.maxGapI.value ELSE 0)

\* C27 witness: binRuns has returned two runs, the first bridging a gap of one
\* falsy position, for maxGap 1; and as many runs as truthy positions when
\* maxGap is missing.
C27_Witness ==
  /\ utility.function = "binRuns" /\ utility.returned
  /\ utility.rawSeq = <<1, 0, 1, 0, 0, 1>>
  /\ utility.maxGapI = [type |-> "number", value |-> 1]
  /\ utility.value = << <<0, 3>>, <<5, 6>> >>
  /\ binRuns(utility.rawSeq, [type |-> "undefined", value |-> 0])
       = << <<0, 1>>, <<2, 3>>, <<5, 6>> >>

RECURSIVE SumRanks(_)
SumRanks(pairs) == IF pairs = <<>> THEN 0 ELSE Head(pairs).rank + SumRanks(Tail(pairs))

\* C28: when no cluster is dropped for zero extent, the aggregateRanks of the
\* consolidated segments of a call on N lines sum to N(N+1)/2, and the
\* aggregateRank of each is at least the number of members of its cluster.
C28_AggregateRanksSumToTriangular ==
  (Consolidating /\ pc \in {"joined", "done"} /\ Len(bigLines) = Len(adjacencyGroups))
    => /\ 2 * SumRanks(bigLines) = Len(lines) * (Len(lines) + 1)
       /\ \A c \in 1..Len(bigLines) : bigLines[c].rank >= Len(adjacencyGroups[c])

\* C28 witness: four lines were joined into two segments, none dropped, one of
\* them from a cluster of three members; the ranks sum to 10.
C28_Witness ==
  /\ Consolidating /\ pc = "joined"
  /\ Len(lines) = 4 /\ Len(bigLines) = 2 /\ Len(adjacencyGroups) = 2
  /\ \E c \in 1..2 : Len(adjacencyGroups[c]) = 3
  /\ bigLines[1].rank + bigLines[2].rank = 10

\* The members of every group are in strictly ascending rank, and the groups
\* are in ascending order of the rank of their first member.
InRankOrder(groups) ==
  /\ \A g \in 1..Len(groups) : \A m, n \in 1..Len(groups[g]) :
       m < n => groups[g][m].rank < groups[g][n].rank
  /\ \A g, h \in 1..Len(groups) :
       (g < h /\ groups[g] # <<>> /\ groups[h] # <<>>) => groups[g][1].rank < groups[h][1].rank

\* C29: inside every collinearity group, every adjacency cluster and every
\* slope-length group the members are in strictly ascending original rank,
\* and the groups are in ascending order of the rank of their first member.
C29_GroupsKeepInputOrder ==
  /\ (Consolidating /\ pc \in {"grouped", "assigned", "resolved", "joined", "done"})
       => InRankOrder(lineGroups)
  /\ (Consolidating /\ pc \in {"assigned", "resolved", "joined", "done"})
       => \A g \in 1..Len(adjacencyGroupsTemp) : InRankOrder(adjacencyGroupsTemp[g])
  /\ (Consolidating /\ pc \in {"resolved", "joined", "done"})
       => InRankOrder(adjacencyGroups)
  /\ (entry = "consolidateLinesBySlope" /\ pc = "done")
       => InRankOrder(result)

\* C29 witness: four lines in two collinearity groups whose members interleave
\* in the input (first and third, second and fourth) have been resolved into
\* two clusters.
C29_Witness ==
  /\ Consolidating /\ pc = "resolved"
  /\ Len(lines) = 4 /\ Len(lineGroups) = 2 /\ Len(adjacencyGroups) = 2
  /\ Len(lineGroups[1]) = 2 /\ Len(lineGroups[2]) = 2
  /\ Len(adjacencyGroups[1]) = 2 /\ Len(adjacencyGroups[2]) = 2
  /\ lineGroups[1][1].rank = 0 /\ lineGroups[1][2].rank = 2
  /\ lineGroups[2][1].rank = 1 /\ lineGroups[2][2].rank = 3
  /\ adjacencyGroups[1][2].rank = 2 /\ adjacencyGroups[2][2].rank = 3

\* The flat line drawn from the other endpoint.
Reversed(line) == <<line[3], line[4], line[1], line[2]>>

\* C30: for rtol > 0 and dtol >= 0, a line of non-zero length and the same line
\* drawn from its other endpoint, both in one input, are placed in the same
\* collinearity group.
C30_ReversedCopySharesGroup ==
  (Consolidating /\ pc \in {"grouped", "assigned", "resolved", "joined", "done"}
     /\ rtol > 0 /\ dtol >= 0)
    => \A a, b \in Members(lineGroups) :
         (/\ b.coordinates = Reversed(a.coordinates)
          /\ <<a.coordinates[1], a.coordinates[2]>> # <<a.coordinates[3], a.coordinates[4]>>)
           => GroupOf(lineGroups, a) = GroupOf(lineGroups, b)

====
